---- MODULE Spec2Model ----
(***************************************************************************)
(* A model of tools/repo_func_analyzer.py: the pipeline of main()          *)
(*   extract_functions_from_repo -> enrich_function (per record)           *)
(*   -> build_call_graph -> rank_functions -> json.dump                    *)
(* Text is a sequence of one-character strings, so that splitlines,        *)
(* count, startswith, lower and the substring test are computed as the     *)
(* code computes them.  Python dicts are heap objects: a list holds        *)
(* references (indices into heap), so in-place mutation is visible.        *)
(* Real numbers are fixed-point integers: centrality in units of           *)
(* 1/PRScale, composite scores in units of 1/ScoreDen, emitted scores in   *)
(* units of 1/RoundDen (four decimal places).                              *)
(***************************************************************************)
EXTENDS Integers, Sequences, FiniteSets, TLC

VARIABLES
    repo,         \* the tree: the paths of its files in os.walk enumeration order (input)
    pc,           \* position in main()
    fileIdx,      \* next file of the walk
    heap,         \* the dict objects created by the extractor, by reference
    functions,    \* all_functions / main's `functions`: references
    enriched,     \* main's `enriched`: references, appended by the comprehension
    graph,        \* the nx.DiGraph returned by build_call_graph
    ranked,       \* the list returned by rank_functions
    output,       \* the document handed to json.dump
    handedOff,    \* history: the records' values when the extractor returned
    enrichedAt,   \* history: the records' values when enrichment finished
    unread,       \* history: the files of the walk whose open/read failed
    lastOutcome,  \* history: what the three sub-analyses of the last enrich_function call did
    ret           \* the value returned by a direct call of is_trivial_function

vars == <<repo, pc, fileIdx, heap, functions, enriched, graph, ranked, output,
          handedOff, enrichedAt, unread, lastOutcome, ret>>

\* ------------------------------------------------------------------ bounds

\* The largest number of files in the analysed tree.
MaxFiles == 2

\* Direct calls of is_trivial_function: the longest function text in lines,
\* the largest complexity and the longest list of call targets.
MaxLines == 6
MaxComplexity == 2
MaxCalls == 2

\* ------------------------------------------------------------- text helpers

Min(a, b) == IF a <= b THEN a ELSE b

Abs(a) == IF a < 0 THEN -a ELSE a

\* sum of a short sequence of numbers
RECURSIVE SumSeq(_)
SumSeq(s) == IF s = <<>> THEN 0 ELSE Head(s) + SumSeq(Tail(s))

\* str.startswith(prefix)
StartsWith(s, p) == Len(s) >= Len(p) /\ SubSeq(s, 1, Len(p)) = p

\* str.endswith(suffix)
EndsWith(s, p) == Len(s) >= Len(p) /\ SubSeq(s, Len(s) - Len(p) + 1, Len(s)) = p

\* `sub in text`
Contains(text, sub) ==
    \E i \in 1..(Len(text) - Len(sub) + 1) :
        text[i] = sub[1] /\ SubSeq(text, i, i + Len(sub) - 1) = sub

\* str.count('\n')
CountNewlines(text) == Cardinality({i \in 1..Len(text) : text[i] = "\n"})

UpperCase == <<"A","B","C","D","E","F","G","H","I","J","K","L","M",
               "N","O","P","Q","R","S","T","U","V","W","X","Y","Z">>

LowerCase == <<"a","b","c","d","e","f","g","h","i","j","k","l","m",
               "n","o","p","q","r","s","t","u","v","w","x","y","z">>

\* The lower-case letter of every upper-case letter.
LowerTable ==
    [c \in {UpperCase[k] : k \in 1..26} |-> LowerCase[CHOOSE k \in 1..26 : UpperCase[k] = c]]

\* str.lower() of one character
LowerChar(c) == IF c \in DOMAIN LowerTable THEN LowerTable[c] ELSE c

\* str.lower(), character by character (over the halves of the text)
RECURSIVE Lower(_)
Lower(text) ==
    IF text = <<>> THEN <<>>
    ELSE IF Len(text) = 1 THEN <<LowerChar(text[1])>>
    ELSE Lower(SubSeq(text, 1, Len(text) \div 2))
         \o Lower(SubSeq(text, Len(text) \div 2 + 1, Len(text)))

\* str.splitlines(keepends=True): a line ends with each newline, which it
\* keeps; text after the last newline is a last line without one.  (The text
\* is cut at a middle line break and the halves split the same way.)
RECURSIVE SplitLinesKeepEnds(_)
SplitLinesKeepEnds(text) ==
    LET breaks == {i \in 1..(Len(text) - 1) : text[i] = "\n"}
    IN IF text = <<>> THEN <<>>
       ELSE IF breaks = {} THEN <<text>>
       ELSE LET mid == CHOOSE e \in breaks :
                          Cardinality({x \in breaks : x < e}) = Cardinality(breaks) \div 2
            IN SplitLinesKeepEnds(SubSeq(text, 1, mid))
               \o SplitLinesKeepEnds(SubSeq(text, mid + 1, Len(text)))

\* ''.join(lines)
RECURSIVE Join(_)
Join(lines) ==
    IF lines = <<>> THEN <<>>
    ELSE IF Len(lines) = 1 THEN lines[1]
    ELSE Join(SubSeq(lines, 1, Len(lines) \div 2))
         \o Join(SubSeq(lines, Len(lines) \div 2 + 1, Len(lines)))

\* lines[a:b] of a Python list (0-based, end exclusive, clamped)
Slice(lines, a, b) == SubSeq(lines, a + 1, Min(b, Len(lines)))

\* ------------------------------------------------------------------ inputs

DotPy == <<".","p","y">>
NameA == <<"A">>
NameB == <<"B">>
NameGetX == <<"g","e","t","_","x">>
NameLogin == <<"l","o","g","i","n">>
NameCheck == <<"c","h","e","c","k">>

\* app.py:
\*   def A(u, v, w):
\*       return u and v and w and B(db)
\*   def B(t):
\*       x = t
\*       y = x
\*       return y
AppSource ==
    <<"d","e","f"," ","A","(","u",","," ","v",","," ","w",")",":","\n"," "," "," "," ",
      "r","e","t","u","r","n"," ","u"," ","a","n","d"," ","v"," ","a","n","d"," ","w",
      " ","a","n","d"," ","B","(","d","b",")","\n","d","e","f"," ","B","(","t",")",":",
      "\n"," "," "," "," ","x"," ","="," ","t","\n"," "," "," "," ","y"," ","="," ","x",
      "\n"," "," "," "," ","r","e","t","u","r","n"," ","y","\n">>

\* login.py:
\*   def login(user, token):
\*       return check(token)
LoginSource ==
    <<"d","e","f"," ","l","o","g","i","n","(","u","s","e","r",","," ","t","o","k","e",
      "n",")",":","\n"," "," "," "," ","r","e","t","u","r","n"," ","c","h","e","c","k",
      "(","t","o","k","e","n",")","\n">>

\* accessor.py, whose last line has no newline:
\*   def get_x(s):
\*       return s.x
AccessorSource ==
    <<"d","e","f"," ","g","e","t","_","x","(","s",")",":","\n"," "," "," "," ","r","e",
      "t","u","r","n"," ","s",".","x">>

\* util.py:
\*   def B(n):
\*       while n:
\*           n = B(B(n))
UtilSource ==
    <<"d","e","f"," ","B","(","n",")",":","\n"," "," "," "," ","w","h","i","l","e"," ",
      "n",":","\n"," "," "," "," "," "," "," "," ","n"," ","="," ","B","(","B","(","n",
      ")",")","\n">>

\* broken.py:  def f(:
BrokenSource == <<"d","e","f"," ","f","(",":","\n">>

\* deep.py: a chain of 100000 unary minus signs before a literal, cut short here
DeepSource == <<"-","-","1">>

\* big.py: a definition line, 59 blank lines and a return, 61 lines
BigSource ==
    <<"d","e","f"," ","b","i","g","(","x",")",":","\n">>
    \o [i \in 1..59 |-> "\n"]
    \o <<" "," "," "," ","r","e","t","u","r","n"," ","x","\n">>

\* README.md
ReadmeSource == <<"h","i","\n">>

\* What the libraries compute from a file's text, which the model does not
\* parse: ast.parse's outcome and, for every ast.FunctionDef in ast.walk
\* order, node.name, node.lineno, node.end_lineno, and what cc_visit,
\* mi_visit and the ast.Call scan return on the function's text when they
\* succeed.
Def(name, lineno, end_lineno, cc, mi, calls) ==
    [name |-> name, lineno |-> lineno, end_lineno |-> end_lineno,
     cc |-> cc, mi |-> mi, calls |-> calls]

AppPy ==
    [path |-> <<"a","p","p",".","p","y">>, source |-> AppSource, parse |-> "ok",
     defs |-> <<Def(NameA, 1, 2, 4, 70, <<NameB>>), Def(NameB, 3, 6, 1, 80, <<>>)>>]

LoginPy ==
    [path |-> <<"l","o","g","i","n",".","p","y">>, source |-> LoginSource, parse |-> "ok",
     defs |-> <<Def(NameLogin, 1, 2, 1, 90, <<NameCheck>>)>>]

AccessorPy ==
    [path |-> <<"a","c","c","e","s","s","o","r",".","p","y">>, source |-> AccessorSource,
     parse |-> "ok", defs |-> <<Def(NameGetX, 1, 2, 1, 100, <<>>)>>]

UtilPy ==
    [path |-> <<"u","t","i","l",".","p","y">>, source |-> UtilSource, parse |-> "ok",
     defs |-> <<Def(NameB, 1, 3, 2, 60, <<NameB, NameB>>)>>]

BrokenPy ==
    [path |-> <<"b","r","o","k","e","n",".","p","y">>, source |-> BrokenSource,
     parse |-> "SyntaxError", defs |-> <<>>]

DeepPy ==
    [path |-> <<"d","e","e","p",".","p","y">>, source |-> DeepSource,
     parse |-> "MemoryError", defs |-> <<>>]

BigPy ==
    [path |-> <<"b","i","g",".","p","y">>, source |-> BigSource, parse |-> "ok",
     defs |-> <<Def(<<"b","i","g">>, 1, 61, 40, 20, <<>>)>>]

ReadmeMd ==
    [path |-> <<"R","E","A","D","M","E",".","m","d">>, source |-> ReadmeSource,
     parse |-> "ok", defs |-> <<>>]

Files == {AppPy, LoginPy, AccessorPy, UtilPy, BigPy, BrokenPy, DeepPy, ReadmeMd}

\* The file system: the file found at a path.
FileAt(path) == CHOOSE f \in Files : f.path = path

\* The trees, as os.walk enumerates them: up to MaxFiles distinct paths in some
\* enumeration order.
Repos ==
    {r \in UNION {[1..n -> {f.path : f \in Files}] : n \in 1..MaxFiles} :
        \A i, j \in DOMAIN r : i # j => r[i] # r[j]}

\* ---------------------------------------------------------------- constants

DOMAIN_KEYWORDS ==
    {<<"d","b">>, <<"d","a","t","a","b","a","s","e">>, <<"u","s","e","r">>,
     <<"a","u","t","h">>, <<"t","o","k","e","n">>, <<"o","r","d","e","r">>,
     <<"p","a","y","m","e","n","t">>, <<"i","t","e","m">>, <<"i","t","e","m","s">>,
     <<"c","r","e","a","t","e">>, <<"r","e","a","d">>, <<"u","p","d","a","t","e">>,
     <<"d","e","l","e","t","e">>, <<"o","p","e","n","a","p","i">>,
     <<"r","o","u","t","e">>, <<"r","e","q","u","e","s","t">>,
     <<"r","e","s","p","o","n","s","e">>, <<"r","o","u","t","e","r">>,
     <<"h","t","t","p">>, <<"s","t","a","t","u","s">>, <<"o","a","u","t","h">>,
     <<"l","o","g","i","n">>, <<"l","o","g","o","u","t">>,
     <<"s","e","s","s","i","o","n">>, <<"v","a","l","i","d","a","t","e">>,
     <<"s","c","h","e","m","a">>, <<"s","e","r","i","a","l","i","z","e">>}

TrivialPrefixes ==
    {<<"g","e","t","_">>, <<"s","e","t","_">>, <<"t","o","_">>,
     <<"f","r","o","m","_">>, <<"i","s","_">>, <<"h","a","s","_">>}

ReturnWord == <<"r","e","t","u","r","n">>

\* Fixed point: one unit of centrality is 1/PRScale.
PRScale == 1000000

\* One unit of a composite score is 1/ScoreDen; ScoreDen is a multiple of
\* 10, 50, PRScale and len(DOMAIN_KEYWORDS), so every term is exact.
ScoreDen == 270000000

\* round(score, 4): one unit of an emitted score is 1/RoundDen.
RoundDen == 10000

\* nx.pagerank's defaults: alpha = 0.85 (in hundredths), max_iter = 100,
\* tol = 1.0e-6 (one unit of 1/PRScale).
AlphaPct == 85
MaxIter == 100
TolUnits == 1

\* ------------------------------------------------------------- extraction

NoError == "none"

\* extract_functions_from_file: [raised, functions]; `readOk` is whether
\* open/read succeeded.
extract_functions_from_file(file, readOk) ==
    IF ~readOk THEN [raised |-> NoError, functions |-> <<>>]
    ELSE IF file.parse = "SyntaxError" THEN [raised |-> NoError, functions |-> <<>>]
    ELSE IF file.parse # "ok" THEN [raised |-> file.parse, functions |-> <<>>]
    ELSE LET lines == SplitLinesKeepEnds(file.source)
         IN [raised |-> NoError,
             functions |->
                [k \in 1..Len(file.defs) |->
                    LET node == file.defs[k]
                    IN [id |-> <<"code", file.path, node.name, node.lineno>>,
                        label |-> node.name,
                        code |-> Join(Slice(lines, node.lineno - 1, node.end_lineno)),
                        type |-> "Function",
                        file_path |-> file.path,
                        lineno |-> node.lineno]]]

\* ------------------------------------------------------------- enrichment

\* The library's view of a record's text: the results cc_visit, mi_visit and
\* the call scan give for it when they succeed.
AnalysisOf(func) ==
    LET file == FileAt(func["file_path"])
    IN file.defs[CHOOSE k \in 1..Len(file.defs) : file.defs[k].lineno = func["lineno"]]

\* The keywords by their first character.
KeywordsByFirst ==
    [c \in {kw[1] : kw \in DOMAIN_KEYWORDS} |-> {kw \in DOMAIN_KEYWORDS : kw[1] = c}]

\* {kw in DOMAIN_KEYWORDS : kw in text}: at every position of the text, the
\* keywords that begin with its character and continue there.
KeywordsIn(text) ==
    UNION {IF text[i] \in DOMAIN KeywordsByFirst
           THEN {kw \in KeywordsByFirst[text[i]] :
                    /\ i + Len(kw) - 1 <= Len(text)
                    /\ SubSeq(text, i, i + Len(kw) - 1) = kw}
           ELSE {} : i \in 1..Len(text)}

\* domain_score = matched / len(DOMAIN_KEYWORDS), in units of 1/ScoreDen
calc_domain_relevance(func) ==
    LET text == Lower(func["label"] \o <<" ">> \o func["code"])
        matched == Cardinality(KeywordsIn(text))
    IN matched * (ScoreDen \div Cardinality(DOMAIN_KEYWORDS))

\* The first try block: cc_visit, then mi_visit, one handler for both.
ComplexityAndMi(func, ccOk, miOk) ==
    IF ccOk /\ miOk
    THEN [complexity |-> AnalysisOf(func).cc, mi_score |-> AnalysisOf(func).mi]
    ELSE [complexity |-> 0, mi_score |-> 0]

\* The second try block: ast.parse and the scan for calls of plain names.
CallTargets(func, parseOk) == IF parseOk THEN AnalysisOf(func).calls ELSE <<>>

\* loc = code.count('\n') + 1
LocOf(code) == CountNewlines(code) + 1

\* The metrics dict enrich_function builds.
MetricsOf(func, ccOk, miOk, parseOk) ==
    [loc |-> LocOf(func["code"]),
     cyclomatic_complexity |-> ComplexityAndMi(func, ccOk, miOk).complexity,
     mi |-> ComplexityAndMi(func, ccOk, miOk).mi_score,
     calls |-> CallTargets(func, parseOk),
     domain_score |-> calc_domain_relevance(func)]

\* func["metrics"] = {...}: the dict with the key set (added when absent).
SetKey(d, key, val) ==
    [k \in DOMAIN d \cup {key} |-> IF k = key THEN val ELSE d[k]]

\* (mutant of enrich_function: the record's code is lower-cased in place)
enrich_function_rewrites_code(h, ref, ccOk, miOk, parseOk) ==
    [heap |-> [h EXCEPT ![ref] =
                  SetKey(SetKey(h[ref], "code", Lower(h[ref]["code"])), "metrics",
                         MetricsOf(h[ref], ccOk, miOk, parseOk))],
     result |-> ref]

\* enrich_function: the heap after the call and the reference returned.
enrich_function(h, ref, ccOk, miOk, parseOk) ==
    [heap |-> [h EXCEPT ![ref] = SetKey(h[ref], "metrics", MetricsOf(h[ref], ccOk, miOk, parseOk))],
     result |-> ref]

\* ------------------------------------------------------------------ state

NoGraph == [nodes |-> {}, edges |-> {}]
NoOutput == [graphNodes |-> <<>>, rankedFunctions |-> <<>>]
NoOutcome == [ref |-> 0, cc |-> FALSE, mi |-> FALSE, calls |-> FALSE]

Deref(h, refs) == [i \in 1..Len(refs) |-> h[refs[i]]]

Init ==
    /\ repo \in Repos
    /\ pc = "extract"
    /\ fileIdx = 1
    /\ heap = <<>>
    /\ functions = <<>>
    /\ enriched = <<>>
    /\ graph = NoGraph
    /\ ranked = <<>>
    /\ output = NoOutput
    /\ handedOff = <<>>
    /\ enrichedAt = <<>>
    /\ unread = {}
    /\ lastOutcome = NoOutcome
    /\ ret = <<>>

\* One turn of the loops of extract_functions_from_repo: the next file.
ExtractFile ==
    /\ pc = "extract"
    /\ fileIdx <= Len(repo)
    /\ \E readOk \in BOOLEAN :
        LET file == FileAt(repo[fileIdx])
            got == extract_functions_from_file(file, readOk)
        IN IF ~EndsWith(file.path, DotPy)
           THEN /\ fileIdx' = fileIdx + 1
                /\ UNCHANGED <<pc, heap, functions, unread>>
           ELSE IF got.raised # NoError
           THEN /\ pc' = "raised"
                /\ UNCHANGED <<fileIdx, heap, functions, unread>>
           ELSE /\ heap' = heap \o got.functions
                /\ functions' = functions \o [k \in 1..Len(got.functions) |-> Len(heap) + k]
                /\ fileIdx' = fileIdx + 1
                /\ unread' = IF readOk THEN unread ELSE unread \cup {fileIdx}
                /\ pc' = pc
    /\ UNCHANGED <<repo, enriched, graph, ranked, output, handedOff, enrichedAt,
                   lastOutcome, ret>>

\* extract_functions_from_repo returns all_functions to main.
ExtractReturn ==
    /\ pc = "extract"
    /\ fileIdx > Len(repo)
    /\ pc' = "enrich"
    /\ handedOff' = Deref(heap, functions)
    /\ UNCHANGED <<repo, fileIdx, heap, functions, enriched, graph, ranked, output,
                   enrichedAt, unread, lastOutcome, ret>>

\* One element of the comprehension [enrich_function(f) for f in functions].
EnrichNext ==
    /\ pc = "enrich"
    /\ Len(enriched) < Len(functions)
    /\ \E ccOk \in BOOLEAN, miOk \in BOOLEAN, parseOk \in BOOLEAN :
        LET ref == functions[Len(enriched) + 1]
            got == enrich_function(heap, ref, ccOk, miOk, parseOk)
        IN /\ heap' = got.heap
           /\ enriched' = Append(enriched, got.result)
           /\ lastOutcome' = [ref |-> ref, cc |-> ccOk, mi |-> miOk, calls |-> parseOk]
    /\ UNCHANGED <<repo, pc, fileIdx, functions, graph, ranked, output, handedOff,
                   enrichedAt, unread, ret>>

\* ------------------------------------------------------------- call graph

\* (mutant of add_edge: the callee gets no node of its own)
add_edge_without_callee_node(G, u, v) ==
    [nodes |-> G.nodes \cup {u}, edges |-> G.edges \cup {<<u, v>>}]

\* nx.DiGraph.add_node / add_edge: sets of nodes and of directed edges;
\* add_edge creates the endpoints it does not find.
add_node(G, n) == [G EXCEPT !.nodes = @ \cup {n}]

add_edge(G, u, v) == [nodes |-> G.nodes \cup {u, v}, edges |-> G.edges \cup {<<u, v>>}]

\* for callee in func["metrics"]["calls"]: G.add_edge(func["label"], callee)
RECURSIVE AddCalls(_, _, _)
AddCalls(G, label, calls) ==
    IF calls = <<>> THEN G
    ELSE AddCalls(add_edge(G, label, Head(calls)), label, Tail(calls))

\* build_call_graph over a list of records (their values)
RECURSIVE BuildFrom(_, _)
BuildFrom(G, funcs) ==
    IF funcs = <<>> THEN G
    ELSE BuildFrom(AddCalls(add_node(G, Head(funcs)["label"]), Head(funcs)["label"],
                            Head(funcs)["metrics"].calls),
                   Tail(funcs))

build_call_graph(funcs) == BuildFrom(NoGraph, funcs)

\* --------------------------------------------------------------- pagerank

RECURSIVE SetSum(_, _)
SetSum(f, S) ==
    IF S = {} THEN 0
    ELSE LET e == CHOOSE x \in S : TRUE IN f[e] + SetSum(f, S \ {e})

Successors(G, n) == {m \in G.nodes : <<n, m>> \in G.edges}

Dangling(G) == {n \in G.nodes : Successors(G, n) = {}}

\* (mutant of PageRankStep: score flows against the direction of the edges)
PageRankStepReversed(G, x) ==
    LET N == Cardinality(G.nodes)
        share == [m \in G.nodes |->
                    IF Successors(G, m) = {} THEN 0
                    ELSE x[m] \div Cardinality(Successors(G, m))]
        danglesum == SetSum(x, Dangling(G))
    IN [n \in G.nodes |->
          (AlphaPct * (SetSum(share, {m \in G.nodes : <<n, m>> \in G.edges})
                       + danglesum \div N)
           + (100 - AlphaPct) * (PRScale \div N)) \div 100]

\* One power iteration of nx.pagerank: every node passes alpha of its score in
\* equal shares to its successors, the dangling nodes' alpha share is spread
\* uniformly, and 1 - alpha restarts uniformly.
PageRankStep(G, x) ==
    LET N == Cardinality(G.nodes)
        share == [m \in G.nodes |->
                    IF Successors(G, m) = {} THEN 0
                    ELSE x[m] \div Cardinality(Successors(G, m))]
        danglesum == SetSum(x, Dangling(G))
    IN [n \in G.nodes |->
          (AlphaPct * (SetSum(share, {m \in G.nodes : <<m, n>> \in G.edges})
                       + danglesum \div N)
           + (100 - AlphaPct) * (PRScale \div N)) \div 100]

RECURSIVE PageRankIterate(_, _, _)
PageRankIterate(G, x, k) ==
    IF k >= MaxIter THEN [converged |-> FALSE, x |-> x]
    ELSE LET y == PageRankStep(G, x)
             err == SetSum([n \in G.nodes |-> Abs(y[n] - x[n])], G.nodes)
         IN IF err < Cardinality(G.nodes) * TolUnits
            THEN [converged |-> TRUE, x |-> y]
            ELSE PageRankIterate(G, y, k + 1)

\* nx.pagerank(graph): starts from the uniform vector; not converging within
\* max_iter raises PowerIterationFailedConvergence.
pagerank(G) ==
    PageRankIterate(G, [n \in G.nodes |-> PRScale \div Cardinality(G.nodes)], 0)

\* ---------------------------------------------------------------- ranking

\* (mutant of is_trivial_function: rule 4 asks for fewer than 2 lines)
is_trivial_function_short_rule4(func) ==
    LET name == func["label"]
        loc == func["metrics"].loc
        complexity == func["metrics"].cyclomatic_complexity
        calls == func["metrics"].calls
    IN IF (\E p \in TrivialPrefixes : StartsWith(name, p)) /\ loc <= 5 THEN TRUE
       ELSE IF loc <= 3 /\ complexity <= 1 THEN TRUE
       ELSE IF Len(calls) = 1 /\ complexity <= 1 THEN TRUE
       ELSE IF Contains(func["code"], ReturnWord) /\ loc < 2 /\ calls = <<>> THEN TRUE
       ELSE FALSE

is_trivial_function(func) ==
    LET name == func["label"]
        loc == func["metrics"].loc
        complexity == func["metrics"].cyclomatic_complexity
        calls == func["metrics"].calls
    IN IF (\E p \in TrivialPrefixes : StartsWith(name, p)) /\ loc <= 5 THEN TRUE
       ELSE IF loc <= 3 /\ complexity <= 1 THEN TRUE
       ELSE IF Len(calls) = 1 /\ complexity <= 1 THEN TRUE
       ELSE IF Contains(func["code"], ReturnWord) /\ loc <= 2 /\ calls = <<>> THEN TRUE
       ELSE FALSE

\* centrality.get(name, 0), with centrality = {} for the empty graph
CentralScore(G, centrality, name) == IF name \in G.nodes THEN centrality[name] ELSE 0

\* (mutant of CompositeScore: the complexity term is not capped)
CompositeScoreUncapped(func, central_score) ==
    3 * ((ScoreDen \div 100) * func["metrics"].cyclomatic_complexity)
    + 2 * Min((ScoreDen \div 500) * func["metrics"].loc, ScoreDen \div 10)
    + 3 * ((ScoreDen \div (10 * PRScale)) * central_score)
    + 2 * (func["metrics"].domain_score \div 10)

\* The composite score, in units of 1/ScoreDen:
\* 0.3*min(complexity/10, 1) + 0.2*min(loc/50, 1) + 0.3*central + 0.2*domain
\* (each weight w/10 is applied as w times a tenth of the term, which is
\* exact and stays within 32 bits)
CompositeScore(func, central_score) ==
    3 * Min((ScoreDen \div 100) * func["metrics"].cyclomatic_complexity, ScoreDen \div 10)
    + 2 * Min((ScoreDen \div 500) * func["metrics"].loc, ScoreDen \div 10)
    + 3 * ((ScoreDen \div (10 * PRScale)) * central_score)
    + 2 * (func["metrics"].domain_score \div 10)

\* round(score, 4): to the nearest unit of 1/RoundDen, ties to even
Round4(score) ==
    LET q == ScoreDen \div RoundDen
        lo == score \div q
        r == score % q
    IN IF 2 * r > q THEN lo + 1
       ELSE IF 2 * r < q THEN lo
       ELSE IF lo % 2 = 0 THEN lo ELSE lo + 1

\* The dict appended to `scored` for one record ("rank": None is 0 here).
ScoredEntry(func, G, centrality) ==
    [functionId |-> func["id"],
     name |-> func["label"],
     file |-> func["file_path"],
     score |-> Round4(CompositeScore(func, CentralScore(G, centrality, func["label"]))),
     rank |-> 0,
     is_trivial |-> is_trivial_function(func)]

\* sorted(scored, key=score, reverse=True): stable, so an entry goes behind
\* every entry whose score is not smaller.
InsertByScore(sortedSeq, e) ==
    LET before == Cardinality({i \in 1..Len(sortedSeq) : sortedSeq[i].score >= e.score})
    IN SubSeq(sortedSeq, 1, before) \o <<e>> \o SubSeq(sortedSeq, before + 1, Len(sortedSeq))

RECURSIVE SortedByScore(_)
SortedByScore(scored) ==
    IF scored = <<>> THEN <<>>
    ELSE InsertByScore(SortedByScore(SubSeq(scored, 1, Len(scored) - 1)), scored[Len(scored)])

\* (mutant of AssignRanks: the rank is the 0-based position)
AssignRanksFromZero(scored) == [i \in 1..Len(scored) |-> [scored[i] EXCEPT !.rank = i - 1]]

\* for i, func in enumerate(scored): func["rank"] = i + 1
AssignRanks(scored) == [i \in 1..Len(scored) |-> [scored[i] EXCEPT !.rank = i]]

\* rank_functions over the records' values and the graph: [raised, ranked]
rank_functions(funcs, G) ==
    LET pr == IF G.nodes # {} THEN pagerank(G) ELSE [converged |-> TRUE, x |-> <<>>]
    IN IF ~pr.converged
       THEN [raised |-> "PowerIterationFailedConvergence", ranked |-> <<>>]
       ELSE [raised |-> NoError,
             ranked |-> AssignRanks(SortedByScore(
                          [i \in 1..Len(funcs) |-> ScoredEntry(funcs[i], G, pr.x)]))]

\* graph = build_call_graph(enriched), once the comprehension is complete
BuildCallGraph ==
    /\ pc = "enrich"
    /\ Len(enriched) = Len(functions)
    /\ graph' = build_call_graph(Deref(heap, enriched))
    /\ enrichedAt' = Deref(heap, enriched)
    /\ lastOutcome' = NoOutcome
    /\ pc' = "rank"
    /\ UNCHANGED <<repo, fileIdx, heap, functions, enriched, ranked, output, handedOff,
                   unread, ret>>

\* ranked = rank_functions(enriched, graph)
RankFunctions ==
    /\ pc = "rank"
    /\ LET got == rank_functions(Deref(heap, enriched), graph)
       IN IF got.raised # NoError
          THEN /\ pc' = "raised"
               /\ ranked' = ranked
          ELSE /\ pc' = "write"
               /\ ranked' = got.ranked
    /\ UNCHANGED <<repo, fileIdx, heap, functions, enriched, graph, output, handedOff,
                   enrichedAt, unread, lastOutcome, ret>>

\* output = {...}; json.dump(output, f)
WriteOutput ==
    /\ pc = "write"
    /\ output' = [graphNodes |-> Deref(heap, enriched), rankedFunctions |-> ranked]
    /\ pc' = "done"
    /\ UNCHANGED <<repo, fileIdx, heap, functions, enriched, graph, ranked, handedOff,
                   enrichedAt, unread, lastOutcome, ret>>

Next ==
    \/ ExtractFile
    \/ ExtractReturn
    \/ EnrichNext
    \/ BuildCallGraph
    \/ RankFunctions
    \/ WriteOutput

Spec == Init /\ [][Next]_vars

\* -------------------------------------------- is_trivial_function, called alone

\* A function text of n lines without a final newline: "def f(x):" and then
\* "pass" lines, the last line a return when asked for ("def f(x): return x"
\* when n = 1).
CodeOfLines(n, withReturn) ==
    LET header == <<"d","e","f"," ","f","(","x",")",":">>
        returnX == <<"r","e","t","u","r","n"," ","x">>
        pass == <<"p","a","s","s">>
    IN IF n = 1
       THEN header \o <<" ">> \o (IF withReturn THEN returnX ELSE pass)
       ELSE header \o Join([k \in 1..(n - 1) |->
                              <<"\n"," "," "," "," ">>
                              \o (IF withReturn /\ k = n - 1 THEN returnX ELSE pass)])

TrivialLabels == {NameGetX, <<"i","s","_","o","k">>, <<"g","e","t">>, NameB}

CallLists == UNION {[1..n -> {NameB}] : n \in 0..MaxCalls}

\* The enriched records is_trivial_function is called on.
TrivialInputs ==
    {LET base == [id |-> <<"code", <<"t",".","p","y">>, label, 1>>,
                  label |-> label,
                  code |-> CodeOfLines(n, withReturn),
                  type |-> "Function",
                  file_path |-> <<"t",".","p","y">>,
                  lineno |-> 1]
     IN SetKey(base, "metrics",
               [loc |-> LocOf(base["code"]),
                cyclomatic_complexity |-> cx,
                mi |-> 0,
                calls |-> calls,
                domain_score |-> calc_domain_relevance(base)]) :
        label \in TrivialLabels, n \in 1..MaxLines, withReturn \in BOOLEAN,
        cx \in 0..MaxComplexity, calls \in CallLists}

InitTrivial ==
    /\ repo = <<>>
    /\ pc = "is_trivial"
    /\ fileIdx = 1
    /\ heap \in {<<f>> : f \in TrivialInputs}
    /\ functions = <<1>>
    /\ enriched = <<1>>
    /\ graph = NoGraph
    /\ ranked = <<>>
    /\ output = NoOutput
    /\ handedOff = <<>>
    /\ enrichedAt = <<>>
    /\ unread = {}
    /\ lastOutcome = NoOutcome
    /\ ret = <<>>

\* is_trivial_function(func)
CallIsTrivial ==
    /\ pc = "is_trivial"
    /\ ret' = <<is_trivial_function(heap[1])>>
    /\ pc' = "returned"
    /\ UNCHANGED <<repo, fileIdx, heap, functions, enriched, graph, ranked, output,
                   handedOff, enrichedAt, unread, lastOutcome>>

NextTrivial == CallIsTrivial

SpecTrivial == InitTrivial /\ [][NextTrivial]_vars

\* ------------------------------------------------------------------ claims

Extracted == pc \in {"enrich", "rank", "write", "done"}
GraphBuilt == pc \in {"rank", "write", "done"}
Ranked == pc \in {"write", "done"}

\* The enriched records, in input order.
Records == Deref(heap, enriched)

\* The input position of the record a ranked entry was made from.
InputIndex(entry) ==
    CHOOSE r \in 1..Len(enriched) : Records[r]["id"] = entry.functionId

\* The centrality rank_functions used, and a record's unrounded composite score.
Centrality == IF graph.nodes # {} THEN pagerank(graph).x ELSE <<>>

CompositeOf(func) == CompositeScore(func, CentralScore(graph, Centrality, func["label"]))

\* C1: the list rank_functions returns has exactly one entry per input record
\* (N = the number of extracted functions), and the entry at position i has
\* rank i: the ranks are 1..N without gaps or duplicates.
C1_RanksArePermutation ==
    Ranked =>
        /\ Len(ranked) = Len(functions)
        /\ \A i \in 1..Len(ranked) : ranked[i].rank = i
        /\ \A r \in 1..Len(enriched) :
              Cardinality({i \in 1..Len(ranked) :
                              ranked[i].functionId = Records[r]["id"]}) = 1

\* C1 witness: three records were ranked and two of them share a name.
C1_SharedNameRanked ==
    /\ pc = "done"
    /\ Len(ranked) >= 3
    /\ \E i, j \in 1..Len(ranked) : i # j /\ ranked[i].name = ranked[j].name

\* C2: the output is ordered by the composite score (unrounded), a
\* strictly greater composite score giving the smaller rank and equal
\* composite scores keeping input order.
C2_OrderedByCompositeScore ==
    Ranked =>
        \A i, j \in 1..Len(ranked) :
            LET a == Records[InputIndex(ranked[i])]
                b == Records[InputIndex(ranked[j])]
            IN /\ CompositeOf(a) > CompositeOf(b) => ranked[i].rank < ranked[j].rank
               /\ (CompositeOf(a) = CompositeOf(b)
                   /\ InputIndex(ranked[i]) < InputIndex(ranked[j]))
                  => ranked[i].rank < ranked[j].rank

\* C3: every emitted score lies in [0, 1], and so does each of the four terms:
\* complexity/10 capped at 1, loc/50 capped at 1, the centrality of the
\* record's name and the domain score.
C3_ScoreInUnitInterval ==
    Ranked =>
        /\ \A i \in 1..Len(ranked) : 0 <= ranked[i].score /\ ranked[i].score <= RoundDen
        /\ \A r \in 1..Len(enriched) :
              LET m == Records[r]["metrics"]
                  c == CentralScore(graph, Centrality, Records[r]["label"])
                  complexityTerm == Min((ScoreDen \div 10) * m.cyclomatic_complexity, ScoreDen)
                  locTerm == Min((ScoreDen \div 50) * m.loc, ScoreDen)
              IN /\ 0 <= complexityTerm /\ complexityTerm <= ScoreDen
                 /\ 0 <= locTerm /\ locTerm <= ScoreDen
                 /\ 0 <= c /\ c <= PRScale
                 /\ 0 <= m.domain_score /\ m.domain_score <= ScoreDen
                 /\ 0 <= CompositeOf(Records[r]) /\ CompositeOf(Records[r]) <= ScoreDen

\* C3 witness: a record above both caps (complexity > 10, loc > 50) was scored.
C3_CapsReached ==
    /\ pc = "done"
    /\ \E r \in 1..Len(enriched) :
          /\ Records[r]["metrics"].cyclomatic_complexity > 10
          /\ Records[r]["metrics"].loc > 50

\* The four triviality rules, as the specification lists them.
Rule1(func) ==
    /\ \E p \in TrivialPrefixes : StartsWith(func["label"], p)
    /\ func["metrics"].loc <= 5
Rule2(func) == func["metrics"].loc <= 3 /\ func["metrics"].cyclomatic_complexity <= 1
Rule3(func) == Len(func["metrics"].calls) = 1 /\ func["metrics"].cyclomatic_complexity <= 1
Rule4(func) ==
    /\ Contains(func["code"], ReturnWord)
    /\ func["metrics"].loc <= 2
    /\ Len(func["metrics"].calls) = 0

\* C4: is_trivial_function returns true exactly when at least one of the four
\* rules matches, whatever the order they are tried in; a record with no call
\* targets, complexity <= 1 and at most 3 lines is always trivial.
C4_TrivialIffSomeRule ==
    ret # <<>> =>
        /\ ret[1] = (Rule4(heap[1]) \/ Rule3(heap[1]) \/ Rule2(heap[1]) \/ Rule1(heap[1]))
        /\ (/\ heap[1]["metrics"].calls = <<>>
            /\ heap[1]["metrics"].cyclomatic_complexity <= 1
            /\ heap[1]["metrics"].loc <= 3) => ret[1]

\* C4 witness: a record that only the last rule matches was flagged trivial.
C4_OnlyRule4Matches ==
    /\ ret = <<TRUE>>
    /\ Rule4(heap[1])
    /\ ~Rule1(heap[1]) /\ ~Rule2(heap[1]) /\ ~Rule3(heap[1])

\* A call list with every repeated target dropped.
RECURSIVE WithoutRepeats(_)
WithoutRepeats(calls) ==
    IF calls = <<>> THEN <<>>
    ELSE LET front == WithoutRepeats(SubSeq(calls, 1, Len(calls) - 1))
             last == calls[Len(calls)]
         IN IF \E i \in 1..Len(front) : front[i] = last THEN front ELSE Append(front, last)

\* C5: in the graph build_call_graph returns, every record's name is a node,
\* every callee name is a node, the edge A->B exists exactly when a record
\* named A has B among its call targets, and repeated targets or self-calls
\* leave the graph a single occurrence would.
C5_GraphMatchesCalls ==
    GraphBuilt =>
        /\ graph.nodes =
              {Records[r]["label"] : r \in 1..Len(enriched)}
              \cup UNION {{Records[r]["metrics"].calls[k] :
                              k \in 1..Len(Records[r]["metrics"].calls)} :
                          r \in 1..Len(enriched)}
        /\ graph.edges =
              UNION {{<<Records[r]["label"], Records[r]["metrics"].calls[k]>> :
                         k \in 1..Len(Records[r]["metrics"].calls)} :
                     r \in 1..Len(enriched)}
        /\ graph = build_call_graph(
                      [r \in 1..Len(enriched) |->
                          SetKey(Records[r], "metrics",
                                 [Records[r]["metrics"] EXCEPT !.calls = WithoutRepeats(@)])])

\* C5 witness: the graph has a self-loop from a record that names the same
\* target twice, and a node that is no record's name.
C5_SelfLoopAndDanglingCallee ==
    /\ pc = "done"
    /\ \E r \in 1..Len(enriched) :
          /\ <<Records[r]["label"], Records[r]["label"]>> \in graph.edges
          /\ Len(Records[r]["metrics"].calls) > Len(WithoutRepeats(Records[r]["metrics"].calls))
    /\ \E n \in graph.nodes : \A r \in 1..Len(enriched) : Records[r]["label"] # n

\* The records of the files that could be read and parsed, in enumeration order.
RECURSIVE RecordsOfGoodFiles(_)
RecordsOfGoodFiles(i) ==
    IF i > Len(repo) THEN <<>>
    ELSE (IF /\ EndsWith(repo[i], DotPy)
             /\ i \notin unread
             /\ FileAt(repo[i]).parse = "ok"
          THEN extract_functions_from_file(FileAt(repo[i]), TRUE).functions
          ELSE <<>>)
         \o RecordsOfGoodFiles(i + 1)

\* C6: a file whose read or parse fails contributes no record and raises
\* nothing, and extraction returns the records of the good files, in order.
C6_BadFilesAreSkipped ==
    /\ pc # "raised"
    /\ Extracted => handedOff = RecordsOfGoodFiles(1)

\* C7: after enrich_function, each of the three sub-analyses that succeeded
\* reports its computed value, and only the ones that failed report 0 or [].
C7_IndependentFallbacks ==
    lastOutcome.ref # 0 =>
        LET func == heap[lastOutcome.ref]
            m == func["metrics"]
        IN /\ m.cyclomatic_complexity = (IF lastOutcome.cc THEN AnalysisOf(func).cc ELSE 0)
           /\ m.mi = (IF lastOutcome.mi THEN AnalysisOf(func).mi ELSE 0)
           /\ m.calls = (IF lastOutcome.calls THEN AnalysisOf(func).calls ELSE <<>>)

\* C8: an enriched record's loc is the number of lines its text spans,
\* end_lineno - lineno + 1, and at least 1.
C8_LocIsLineSpan ==
    \A r \in 1..Len(enriched) :
        /\ Records[r]["metrics"].loc
             = AnalysisOf(Records[r]).end_lineno - AnalysisOf(Records[r]).lineno + 1
        /\ Records[r]["metrics"].loc >= 1

\* C9 as stated: no record is changed after hand-off: the extractor's records
\* stay as returned, the enriched records stay as they were when enrichment
\* finished, and graphNodes equals them.
C9_NoInPlaceMutation ==
    /\ Extracted => Deref(heap, functions) = handedOff
    /\ GraphBuilt => Records = enrichedAt
    /\ pc = "done" => output.graphNodes = enrichedAt

\* C9 as amended: enrich_function changes the extractor's records in place
\* only by adding the "metrics" key, every key the extractor wrote keeping
\* its value; build_call_graph and rank_functions change no record, and
\* graphNodes equals the records as they were when enrichment finished.
C9_OnlyMetricsAttached ==
    /\ Extracted =>
          /\ Len(functions) = Len(handedOff)
          /\ \A i \in 1..Len(functions) :
                /\ DOMAIN heap[functions[i]] \subseteq DOMAIN handedOff[i] \cup {"metrics"}
                /\ \A k \in DOMAIN handedOff[i] : heap[functions[i]][k] = handedOff[i][k]
    /\ GraphBuilt => (enriched = functions /\ Records = enrichedAt)
    /\ pc = "done" => output.graphNodes = enrichedAt

\* C9 witness: the run finished with two or more records, each of which got
\* its metrics after the extractor handed it off.
C9_MetricsAddedAfterHandOff ==
    /\ pc = "done"
    /\ Len(functions) >= 2
    /\ \A i \in 1..Len(functions) :
          /\ "metrics" \notin DOMAIN handedOff[i]
          /\ "metrics" \in DOMAIN output.graphNodes[i]

\* The graph of two functions A and B where A calls B and B calls nothing.
CallerCalleeGraph == [nodes |-> {NameA, NameB}, edges |-> {<<NameA, NameB>>}]

\* C10: on that graph the centrality of B is greater than that of A, both lie
\* in [0, 1], and they sum to 1 (to the precision scores are emitted with).
C10_CalleeOutranksCaller ==
    (GraphBuilt /\ graph = CallerCalleeGraph) =>
        LET pr == pagerank(graph)
        IN /\ pr.converged
           /\ pr.x[NameB] > pr.x[NameA]
           /\ 0 <= pr.x[NameA] /\ pr.x[NameA] <= PRScale
           /\ 0 <= pr.x[NameB] /\ pr.x[NameB] <= PRScale
           /\ Abs(pr.x[NameA] + pr.x[NameB] - PRScale) < PRScale \div RoundDen

\* C10 witness: the run ranked exactly A and B over that graph.
C10_CallerCalleeRanked ==
    /\ pc = "done"
    /\ graph = CallerCalleeGraph
    /\ Len(ranked) = 2
    /\ Records[1]["metrics"].calls = <<NameB>>
    /\ Records[2]["metrics"].calls = <<>>

====
